---- MODULE Spec2Model ----
(***************************************************************************)
(* Model of the quiz application src/app.py: the session lifecycle         *)
(* (start_quiz, log_activity, submit), the three tables it writes          *)
(* (session_info, quiz_log, security_events) and the scoring of a          *)
(* submission.                                                             *)
(*                                                                         *)
(* The Flask session is a Python dict; it is modelled as a function whose  *)
(* DOMAIN is the set of keys present, so session.get(k, d), "k in session" *)
(* and session.clear() keep their meaning.  The tables are sequences of    *)
(* rows in insertion order.  Every storage call can fail (psycopg2         *)
(* raises); which calls fail is an input of each request.                  *)
(***************************************************************************)
EXTENDS Integers, Sequences, FiniteSets, TLC

VARIABLES
    session,          \* the client's Flask session between two requests
    session_info,     \* table session_info, rows in insertion order
    quiz_log,         \* table quiz_log
    security_events,  \* table security_events
    updates,          \* history: session ids whose UPDATE of submission_time committed
    faults,           \* history: number of storage calls that have failed so far
    pings,            \* history: number of activity pings counted so far
    last,             \* the last request and the response it got
    reqs              \* submit requests in flight (used by SpecConcurrent only)

vars == <<session, session_info, quiz_log, security_events, updates, faults, pings, last, reqs>>

tables == <<session_info, quiz_log, security_events, updates>>

----------------------------------------------------------------------------
(* Bounds of the model *)

\* session_info rows (attempts started) in one behaviour
MaxAttempts == 1
\* storage calls that fail in one behaviour
MaxFaults == 1
\* activity pings counted in one behaviour
MaxPings == 1
\* length of the answer list a form carries for one question
MaxAnswers == 2
\* submit requests of one client in flight at the same time
MaxInFlight == 2
\* characters of a name in SpecNames
MaxNameLen == 4
\* questions in the bank and value of 'num_questions' in SpecSelect
MaxBank == 5
MaxRequested == 10
\* copy-paste pings and tab-switch pings counted in one attempt of SpecActivity
MaxCopyPaste == 6
MaxTabSwitches == 11

----------------------------------------------------------------------------
(* Python values *)

\* None, for a value that is otherwise wrapped as <<v>> (a NULL column)
NULL == <<>>

Some(v) == <<v>>

\* {} and the result of dict.clear()
EmptyDict == [k \in {} |-> 0]

\* key in d
Has(d, key) == key \in DOMAIN d

\* d[key] = value
Put(d, key, value) == (key :> value) @@ d

\* dict.get(key, default)
Get(d, key, default) == IF key \in DOMAIN d THEN d[key] ELSE default

\* set(list)
ToSet(s) == {s[i] : i \in DOMAIN s}

\* all sequences over S of length at most n
SeqsUpTo(S, n) == UNION {[1..m -> S] : m \in 0..n}

\* list.count(value)
Count(table, value) == Cardinality({i \in DOMAIN table : table[i] = value})

----------------------------------------------------------------------------
(* Configuration (class Config) and the content files *)

MIN_TIME_PER_QUESTION == 30
MAX_QUIZ_TIME == 1800

\* thresholds of the suspicious-activity test in submit
CopyPasteThreshold == 5
TabSwitchThreshold == 10

\* the question bank load_questions() returns: the second question has no
\* question_id, so its form key is its text
Bank ==
    << [question_id |-> "q1", question |-> "Q1", correct_answers |-> <<"A", "B">>],
       [question |-> "Q2", correct_answers |-> <<"A">>] >>

Options == {"A", "B"}

\* values of 'num_questions' the parameters file may carry when it is read
NumQuestionsChoices == {0, 2}

\* readings of datetime.now(): the start of the run and LateTime seconds later
LateTime == 2000
Times == {0, LateTime}

----------------------------------------------------------------------------
(* validate_student_name: names are sequences of characters *)

Letters == {"A", "n"}
Whitespace == {" ", "\t"}

IsSpace(c) == c \in Whitespace

\* str.strip(): drop leading and trailing whitespace
RECURSIVE LStrip(_)
LStrip(s) == IF s # <<>> /\ IsSpace(Head(s)) THEN LStrip(Tail(s)) ELSE s

RECURSIVE RStrip(_)
RStrip(s) ==
    IF s # <<>> /\ IsSpace(s[Len(s)]) THEN RStrip(SubSeq(s, 1, Len(s) - 1)) ELSE s

Strip(s) == RStrip(LStrip(s))

\* the character class [a-zA-Z\s\-']
NameChar(c) == c \in Letters \/ IsSpace(c) \/ c = "-" \/ c = "'"

validate_student_name(name) ==
    IF name = <<>> \/ Len(Strip(name)) < 2
    THEN FALSE
    ELSE \A i \in DOMAIN Strip(name) : NameChar(Strip(name)[i])

\* the student_name form values the model submits
NameInputs ==
    { <<" ", "A", "n">>, <<"A", "3">> }

----------------------------------------------------------------------------
(* select_random_questions *)

\* a variant for C17: a sample drawn with replacement
Samples_WithReplacement(population, k) ==
    { [i \in 1..k |-> population[f[i]]] : f \in [1..k -> DOMAIN population] }

\* random.sample(population, k): any k distinct positions, in any order
Samples(population, k) ==
    { [i \in 1..k |-> population[f[i]]] :
        f \in {g \in [1..k -> DOMAIN population] :
                 \A a, b \in 1..k : a # b => g[a] # g[b]} }

\* the lists select_random_questions can return for 'num_questions' = k
select_random_questions(questions_list, num_questions) ==
    IF Len(questions_list) < num_questions
    THEN {questions_list}
    ELSE Samples(questions_list, num_questions)

----------------------------------------------------------------------------
(* Storage calls.  A call site is <<name, index>>; a request is given the  *)
(* set of its call sites that fail.                                        *)

Site(name) == <<name, 0>>

\* the state of the three tables, with the history of committed UPDATEs
Tables(info, qlog, events, upd) ==
    [session_info |-> info, quiz_log |-> qlog, security_events |-> events,
     updates |-> upd]

\* a variant for C3: the row is inserted with submission_time set
create_initial_session_info_Stamped(session_id, student_name, page_load_time) ==
    [session_id |-> session_id, student_name |-> student_name,
     page_load_time |-> Some(page_load_time), submission_time |-> Some(page_load_time)]

\* create_initial_session_info: the row it inserts, submission_time NULL
create_initial_session_info(session_id, student_name, page_load_time) ==
    [session_id |-> session_id, student_name |-> student_name,
     page_load_time |-> Some(page_load_time), submission_time |-> NULL]

\* a variant for C20: the UPDATE is made only within the allowed quiz time
update_session_submission_time_InTime(info, session_id, now) ==
    [i \in DOMAIN info |->
        IF info[i].session_id = session_id /\ now <= MAX_QUIZ_TIME
        THEN [info[i] EXCEPT !.submission_time = Some(now)]
        ELSE info[i]]

\* update_session_submission_time: UPDATE ... WHERE session_id = %s
update_session_submission_time(info, session_id, now) ==
    [i \in DOMAIN info |->
        IF info[i].session_id = session_id
        THEN [info[i] EXCEPT !.submission_time = Some(now)]
        ELSE info[i]]

\* the UPDATE is recorded once for every row it changed
RecordUpdate(upd, info, session_id) ==
    IF \E i \in DOMAIN info : info[i].session_id = session_id
    THEN Append(upd, session_id)
    ELSE upd

\* log_security_event: the row it inserts
SecurityEvent(session_id, event_type, event_details) ==
    [session_id |-> session_id, event_type |-> event_type,
     event_details |-> event_details]

\* a variant for C7: the failure of the INSERT is raised to the caller
log_security_event_Raising(events, failed, session_id, event_type, event_details) ==
    [events |-> IF failed
                THEN events
                ELSE Append(events, SecurityEvent(session_id, event_type, event_details)),
     raised |-> failed]

\* log_security_event: the table after the call, and whether the call raised.
\* Its own except clause logs the failure and returns, so it never raises.
log_security_event(events, failed, session_id, event_type, event_details) ==
    [events |-> IF failed
                THEN events
                ELSE Append(events, SecurityEvent(session_id, event_type, event_details)),
     raised |-> FALSE]

----------------------------------------------------------------------------
(* The request handlers, as functions from the session the request came    *)
(* with, the tables and the request's inputs to the session it leaves, the *)
(* tables, the storage call sites it executed and its response.            *)

Outcome(sess, tbl, executed, response) ==
    [session |-> sess, tables |-> tbl, executed |-> executed, response |-> response]

\* a variant for C11: the id of the first attempt is issued again
generate_session_id_Reused(info) == 1

\* generate_session_id: a uuid4, an id no row of session_info carries
generate_session_id(info) == Len(info) + 1

\* start_quiz, STEP 2: the session as start_quiz populates it
\* (student_hash, a digest of the name and the client, is left out: no
\* handler reads it back)
StartedSession(selected_questions, session_id, student_name, page_load_time) ==
    [current_questions |-> selected_questions,
     session_id |-> session_id,
     student_name |-> student_name,
     page_load_time |-> page_load_time,
     copy_paste_attempts |-> 0,
     tab_switches |-> 0]

\* a variant for C5: session.clear() runs before the name is validated
SessionAfterInvalidName_Cleared(sess) == EmptyDict

\* the session an invalid name leaves: the handler returns before
\* session.clear()
SessionAfterInvalidName(sess) == sess

\* a variant for C4: the session is populated before the INSERT (STEP 2
\* before STEP 1)
SessionAfterInsertFailure_Populated(selected_questions, session_id, student_name, page_load_time) ==
    StartedSession(selected_questions, session_id, student_name, page_load_time)

\* a variant for C6: the session_id is stored before the INSERT
SessionAfterInsertFailure_WithId(selected_questions, session_id, student_name, page_load_time) ==
    [session_id |-> session_id]

\* the session a failed INSERT leaves: cleared, and not yet populated (STEP 1
\* comes before STEP 2)
SessionAfterInsertFailure(selected_questions, session_id, student_name, page_load_time) ==
    EmptyDict

StartResponse(status, questions) ==
    [route |-> "start_quiz", status |-> status, questions |-> questions]

\* a variant for C22: the previous attempt survives a failed question load
SessionAfterLoadFailure_Kept(sess) == sess

\* the session when the question load fails: session.clear() has already run
SessionAfterLoadFailure(sess) == EmptyDict

start_quiz(sess, tbl, name, selected_questions, now, failing) ==
    LET student_name == Strip(name)
        session_id == generate_session_id(tbl.session_info)
        load == Site("load_questions")
        select == Site("select_random_questions")
        insert == Site("create_initial_session_info")
        started == Site("QUIZ_STARTED")
    IN
    IF ~validate_student_name(student_name)
    THEN Outcome(SessionAfterInvalidName(sess), tbl, {}, StartResponse("invalid_name", <<>>))
    ELSE IF load \in failing
    THEN Outcome(SessionAfterLoadFailure(sess), tbl, {load}, StartResponse("load_error", <<>>))
    ELSE IF select \in failing
    THEN \* the parameters file is read again outside any try: the exception
         \* leaves the handler and the 500 page is sent with the cleared session
         Outcome(EmptyDict, tbl, {load, select}, StartResponse("internal_error", <<>>))
    ELSE IF insert \in failing
    THEN Outcome(SessionAfterInsertFailure(selected_questions, session_id, student_name, now),
                 tbl, {load, select, insert}, StartResponse("start_error", <<>>))
    ELSE
    LET logged == log_security_event(tbl.security_events, started \in failing,
                      session_id, "QUIZ_STARTED",
                      [student_name |-> student_name,
                       num_questions |-> Len(selected_questions),
                       start_time |-> now])
    IN \* a raise of the logging call is caught by the handler's own except
       \* clause: the quiz page is rendered either way
       Outcome(
            StartedSession(selected_questions, session_id, student_name, now),
            [tbl EXCEPT
                !.session_info =
                    Append(@, create_initial_session_info(session_id, student_name, now)),
                !.security_events = logged.events],
            {load, select, insert, started},
            StartResponse("quiz", selected_questions))

----------------------------------------------------------------------------
(* submit *)

\* a variant for C21: the submitted flag is not examined
SubmitRejected_FlagIgnored(sess) == ~Has(sess, "session_id")

\* the guard: no session_id, or the attempt is already marked submitted
SubmitRejected(sess) ==
    ~Has(sess, "session_id") \/ Get(sess, "quiz_submitted", FALSE)

\* a variant for C1: the attempt is not marked
MarkSubmitted_Unmarked(sess) == sess

\* session['quiz_submitted'] = True
MarkSubmitted(sess) == Put(sess, "quiz_submitted", TRUE)

\* a variant for C14: the session is kept, marked, after the result
SessionAfterResult_Kept(sess) == sess

\* the session a successful submit leaves: session.clear()
SessionAfterResult(sess) == EmptyDict

\* a variant for C15: the question list is not examined
SessionComplete_QuestionsUnchecked(sess) ==
    /\ Has(sess, "session_id")
    /\ Get(sess, "student_name", <<>>) # <<>>
    /\ Has(sess, "page_load_time")

\* all([selected_questions, session_id, student_name, page_load_time_str])
SessionComplete(sess) ==
    /\ Get(sess, "current_questions", <<>>) # <<>>
    /\ Has(sess, "session_id")
    /\ Get(sess, "student_name", <<>>) # <<>>
    /\ Has(sess, "page_load_time")

\* request.form.getlist(key)
getlist(form, key) == Get(form, key, <<>>)

\* the answers read for a question: under its question_id (its text when it
\* has none) and, when that gives nothing, under its text
user_answers_of(form, question) ==
    LET first == getlist(form, Get(question, "question_id", question.question))
    IN IF first = <<>> THEN getlist(form, question.question) ELSE first

\* a variant for C8: the submitted list is compared with the list of correct
\* answers, order included
is_correct_Ordered(user_answers, correct_answers) == user_answers = correct_answers

\* the correctness test of one question
is_correct(user_answers, correct_answers) ==
    /\ ToSet(user_answers) = ToSet(correct_answers)
    /\ Len(user_answers) = Len(correct_answers)

\* a variant for C13: the thresholds themselves count as exceeded
suspicious_activity_Inclusive(copy_paste_attempts, tab_switches) ==
    copy_paste_attempts >= CopyPasteThreshold \/ tab_switches >= TabSwitchThreshold

\* the threshold test
suspicious_activity(copy_paste_attempts, tab_switches) ==
    copy_paste_attempts > CopyPasteThreshold \/ tab_switches > TabSwitchThreshold

\* '|'.join(answers)
RECURSIVE PipeJoin(_)
PipeJoin(answers) ==
    IF Len(answers) <= 1
    THEN answers
    ELSE <<Head(answers), "|">> \o PipeJoin(Tail(answers))

\* f"q_{question_number}"
DefaultQuestionId(question_number) == <<"q_1", "q_2", "q_3">>[question_number]

\* save_quiz_log: the row it inserts (the two modification timestamps, copied
\* from the form when they parse, are left out)
save_quiz_log(session_id, question_number, question, user_answers, correct, copy_paste_attempts, tab_switches) ==
    [session_id |-> session_id,
     question_number |-> question_number,
     question_id |-> Get(question, "question_id", DefaultQuestionId(question_number)),
     question |-> question.question,
     user_answers |-> PipeJoin(user_answers),
     correct_answers |-> PipeJoin(question.correct_answers),
     is_correct |-> correct,
     copy_paste_attempts |-> copy_paste_attempts,
     tab_switches |-> tab_switches]

SubmitResponse(status) == [route |-> "submit", status |-> status]

\* render_template('result.html', ...)
ResultPage(score, total, results, suspicious) ==
    [route |-> "submit", status |-> "result", score |-> score, total |-> total,
     results |-> results, suspicious_activity |-> suspicious]

\* a variant for C19: the rows are inserted from the last question to the first
LogRows_Reversed(sess, form) ==
    LET selected_questions == Get(sess, "current_questions", <<>>)
        last_number == Len(selected_questions)
    IN [n \in DOMAIN selected_questions |->
           LET question == selected_questions[last_number + 1 - n]
               user_answers == user_answers_of(form, question)
           IN save_quiz_log(sess["session_id"], last_number + 1 - n, question, user_answers,
                  is_correct(user_answers, question.correct_answers),
                  Get(sess, "copy_paste_attempts", 0), Get(sess, "tab_switches", 0))]

\* a variant for C9: every row is numbered 1
LogRows_NumberedOne(sess, form) ==
    LET selected_questions == Get(sess, "current_questions", <<>>)
    IN [n \in DOMAIN selected_questions |->
           LET question == selected_questions[n]
               user_answers == user_answers_of(form, question)
           IN save_quiz_log(sess["session_id"], 1, question, user_answers,
                  is_correct(user_answers, question.correct_answers),
                  Get(sess, "copy_paste_attempts", 0), Get(sess, "tab_switches", 0))]

\* the rows the loop over the selected questions has to insert, in order
LogRows(sess, form) ==
    LET selected_questions == Get(sess, "current_questions", <<>>)
    IN [n \in DOMAIN selected_questions |->
           LET question == selected_questions[n]
               user_answers == user_answers_of(form, question)
           IN save_quiz_log(sess["session_id"], n, question, user_answers,
                  is_correct(user_answers, question.correct_answers),
                  Get(sess, "copy_paste_attempts", 0), Get(sess, "tab_switches", 0))]

\* results.append({...})
Results(sess, form) ==
    LET selected_questions == Get(sess, "current_questions", <<>>)
    IN [n \in DOMAIN selected_questions |->
           LET question == selected_questions[n]
               user_answers == user_answers_of(form, question)
           IN [question_id |-> Get(question, "question_id", DefaultQuestionId(n)),
               user_answers |-> user_answers,
               correct_answers |-> question.correct_answers,
               is_correct |-> is_correct(user_answers, question.correct_answers)]]

\* a variant for C10: the score counts every question
Score_All(results) == Len(results)

\* score += 1 for every correct question
Score(results) == Cardinality({n \in DOMAIN results : results[n].is_correct})

\* a variant for C16: a failing save_quiz_log does not stop the loop
FirstFailing_None(rows, failing) == Len(rows) + 1

\* the first question whose save_quiz_log fails, Len + 1 when none does
FirstFailing(rows, failing) ==
    IF \E n \in DOMAIN rows : <<"save_quiz_log", n>> \in failing
    THEN CHOOSE n \in DOMAIN rows :
            /\ <<"save_quiz_log", n>> \in failing
            /\ \A m \in 1..(n - 1) : <<"save_quiz_log", m>> \notin failing
    ELSE Len(rows) + 1

\* the part of submit after the guard: the attempt is marked, then processed
ProcessSubmission(sess, tbl, form, now, failing) ==
    LET marked == MarkSubmitted(sess)
        params == Site("load_quiz_parameters")
        update == Site("update_session_submission_time")
        susp == Site("SUSPICIOUS_ACTIVITY")
        done == Site("QUIZ_COMPLETED")
    IN
    IF params \in failing
    THEN Outcome(marked, tbl, {params}, SubmitResponse("error"))
    ELSE IF ~SessionComplete(marked)
    THEN Outcome(marked, tbl, {params}, SubmitResponse("session_expired"))
    ELSE IF update \in failing
    THEN Outcome(marked, tbl, {params, update}, SubmitResponse("error"))
    ELSE
    LET session_id == marked["session_id"]
        student_name == marked["student_name"]
        copy_paste_attempts == Get(marked, "copy_paste_attempts", 0)
        tab_switches == Get(marked, "tab_switches", 0)
        time_elapsed == now - marked["page_load_time"]
        suspicious == suspicious_activity(copy_paste_attempts, tab_switches)
        rows == LogRows(marked, form)
        results == Results(marked, form)
        stop == FirstFailing(rows, failing)
        updated == [tbl EXCEPT
            !.session_info = update_session_submission_time(@, session_id, now),
            !.updates = RecordUpdate(@, tbl.session_info, session_id),
            !.quiz_log = @ \o SubSeq(rows, 1, stop - 1)]
        saves == {<<"save_quiz_log", n>> : n \in 1..(IF stop > Len(rows) THEN Len(rows) ELSE stop)}
    IN
    IF stop <= Len(rows)
    THEN Outcome(marked, updated, {params, update} \cup saves, SubmitResponse("error"))
    ELSE
    LET flagged ==
            IF suspicious
            THEN log_security_event(updated.security_events, susp \in failing,
                     session_id, "SUSPICIOUS_ACTIVITY",
                     [copy_paste_attempts |-> copy_paste_attempts,
                      tab_switches |-> tab_switches,
                      student_name |-> student_name,
                      threshold_exceeded |->
                         [copy_paste |-> copy_paste_attempts > CopyPasteThreshold,
                          tab_switches |-> tab_switches > TabSwitchThreshold]])
            ELSE [events |-> updated.security_events, raised |-> FALSE]
        completed ==
            log_security_event(flagged.events, done \in failing, session_id,
                "QUIZ_COMPLETED",
                [student_name |-> student_name,
                 score |-> Score(results),
                 total_questions |-> Len(rows),
                 completion_time |-> now,
                 time_elapsed_seconds |-> time_elapsed])
        flagging == IF suspicious THEN {susp} ELSE {}
    IN
    \* a raise of a logging call would end in the handler's except clause
    IF flagged.raised
    THEN Outcome(marked, [updated EXCEPT !.security_events = flagged.events],
                 {params, update} \cup saves \cup flagging, SubmitResponse("error"))
    ELSE IF completed.raised
    THEN Outcome(marked, [updated EXCEPT !.security_events = completed.events],
                 {params, update, done} \cup saves \cup flagging, SubmitResponse("error"))
    ELSE Outcome(SessionAfterResult(marked),
                 [updated EXCEPT !.security_events = completed.events],
                 {params, update, done} \cup saves \cup flagging,
                 ResultPage(Score(results), Len(rows), results, suspicious))

submit(sess, tbl, form, now, failing) ==
    IF SubmitRejected(sess)
    THEN Outcome(sess, tbl, {}, SubmitResponse("invalid_submission"))
    ELSE ProcessSubmission(sess, tbl, form, now, failing)

----------------------------------------------------------------------------
(* log_activity *)

ActivityResponse(status, message) ==
    [route |-> "log_activity", status |-> status, message |-> message]

\* the body's 'type'; "malformed" is a body request.json cannot read
ActivityTypes == {"copy_paste", "tab_switch", "other", "malformed"}

\* the answer after the logging call: a raise would end in the handler's
\* except clause
ActivityAnswer(raised) ==
    IF raised
    THEN ActivityResponse("error", "Failed to log activity")
    ELSE ActivityResponse("logged", "")

\* a variant for C12: the counter is stored after the event is built
Increment_Late(sess, counter) == Put(sess, counter, Get(sess, counter, 0))

\* session[counter] = session.get(counter, 0) + 1
Increment(sess, counter) == Put(sess, counter, Get(sess, counter, 0) + 1)

log_activity(sess, tbl, activity_type, now, failing) ==
    LET ping == Site("ACTIVITY") IN
    IF ~Has(sess, "session_id")
    THEN Outcome(sess, tbl, {}, ActivityResponse("error", "No active session"))
    ELSE IF activity_type = "malformed"
    THEN Outcome(sess, tbl, {}, ActivityResponse("error", "Failed to log activity"))
    ELSE IF activity_type = "copy_paste"
    THEN LET counted == Increment(sess, "copy_paste_attempts")
             logged == log_security_event(tbl.security_events, ping \in failing,
                           sess["session_id"], "COPY_PASTE_ATTEMPT",
                           [total_attempts |-> counted["copy_paste_attempts"],
                            timestamp |-> now])
         IN Outcome(counted, [tbl EXCEPT !.security_events = logged.events], {ping},
                    ActivityAnswer(logged.raised))
    ELSE IF activity_type = "tab_switch"
    THEN LET counted == Increment(sess, "tab_switches")
             logged == log_security_event(tbl.security_events, ping \in failing,
                           sess["session_id"], "TAB_SWITCH",
                           [total_switches |-> counted["tab_switches"],
                            timestamp |-> now])
         IN Outcome(counted, [tbl EXCEPT !.security_events = logged.events], {ping},
                    ActivityAnswer(logged.raised))
    ELSE Outcome(sess, tbl, {}, ActivityResponse("logged", ""))

----------------------------------------------------------------------------
(* Inputs of the requests *)

StartSites ==
    {Site("load_questions"), Site("select_random_questions"),
     Site("create_initial_session_info"), Site("QUIZ_STARTED")}

SubmitSites ==
    {Site("load_quiz_parameters"), Site("update_session_submission_time"),
     Site("SUSPICIOUS_ACTIVITY"), Site("QUIZ_COMPLETED")}
    \cup {<<"save_quiz_log", n>> : n \in DOMAIN Bank}

ActivitySites == {Site("ACTIVITY")}

\* the sets of call sites that may still fail, when at most 'budget' storage
\* calls fail in a behaviour
FaultSets(sites, budget) == {F \in SUBSET sites : faults + Cardinality(F) <= budget}

\* every form with at most MaxAnswers answers to a question, those to the
\* first question sent under its question_id or under its text
AllForms ==
    { (key :> first) @@ ("Q2" :> second) :
        key \in {"q1", "Q1"},
        first \in SeqsUpTo(Options, MaxAnswers),
        second \in SeqsUpTo(Options, MaxAnswers) }

\* two forms: every question answered correctly; the first question answered
\* in reverse order under its text and the second wrongly
SomeForms ==
    { [q1 |-> <<"A", "B">>, Q2 |-> <<"A">>],
      [Q1 |-> <<"B", "A">>, Q2 |-> <<"B">>] }

----------------------------------------------------------------------------
(* The requests as actions: one request is handled at a time *)

Current == Tables(session_info, quiz_log, security_events, updates)

\* the activity counted in the session
Pings(sess) == Get(sess, "copy_paste_attempts", 0) + Get(sess, "tab_switches", 0)

\* the request ends: its session is saved and its writes are in the tables
Respond(outcome, failing) ==
    /\ failing \subseteq outcome.executed
    /\ session' = outcome.session
    /\ session_info' = outcome.tables.session_info
    /\ quiz_log' = outcome.tables.quiz_log
    /\ security_events' = outcome.tables.security_events
    /\ updates' = outcome.tables.updates
    /\ faults' = faults + Cardinality(failing)
    /\ pings' = pings + (IF outcome.response.route = "log_activity"
                          THEN Pings(outcome.session) - Pings(session)
                          ELSE 0)
    /\ last' = [response |-> outcome.response, failed |-> failing]
    /\ UNCHANGED reqs

StartQuiz(name, num_questions, now, failing) ==
    \E selected_questions \in select_random_questions(Bank, num_questions) :
        Respond(start_quiz(session, Current, name, selected_questions, now, failing),
                failing)

Submit(form, now, failing) ==
    Respond(submit(session, Current, form, now, failing), failing)

LogActivity(activity_type, now, failing) ==
    Respond(log_activity(session, Current, activity_type, now, failing), failing)

Init ==
    /\ session = EmptyDict
    /\ session_info = <<>>
    /\ quiz_log = <<>>
    /\ security_events = <<>>
    /\ updates = <<>>
    /\ faults = 0
    /\ pings = 0
    /\ last = [response |-> [route |-> "index", status |-> "login"], failed |-> {}]
    /\ reqs = <<>>

\* the requests a client sends, with the clock readings, the forms, the
\* activity types, the number of attempts and the number of failing storage
\* calls a specification allows
Requests(times, forms, types, attempts, budget) ==
    \/ \E name \in NameInputs, num_questions \in NumQuestionsChoices, now \in times,
          failing \in FaultSets(StartSites, budget) :
            /\ StartQuiz(name, num_questions, now, failing)
            /\ Len(session_info') <= attempts
    \/ \E form \in forms, now \in times, failing \in FaultSets(SubmitSites, budget) :
            Submit(form, now, failing)
    \/ \E activity_type \in types, now \in times,
          failing \in FaultSets(ActivitySites, budget) :
            /\ LogActivity(activity_type, now, failing)
            /\ pings' <= MaxPings

Next == Requests({0}, SomeForms, {"copy_paste", "tab_switch"}, MaxAttempts, MaxFaults)

Spec == Init /\ [][Next]_vars

\* Scoring: one attempt, submitted with any form; no storage call fails and
\* no activity is counted
NextScoring == Requests({0}, AllForms, {"other", "malformed"}, 1, 0)

SpecScoring == Init /\ [][NextScoring]_vars

\* Restart: one attempt more than Spec allows, so that a quiz is started in
\* a session that holds an attempt; one storage call may fail
NextRestart ==
    Requests({0}, SomeForms, {"tab_switch"}, MaxAttempts + 1, 1)

SpecRestart == Init /\ [][NextRestart]_vars

\* Activity: one attempt with up to MaxCopyPaste copy-paste pings followed by
\* up to MaxTabSwitches tab-switch pings (the client sends its copy-paste
\* pings first), submitted at any point; no storage call fails
NextActivity ==
    \/ \E name \in NameInputs, num_questions \in NumQuestionsChoices :
            /\ StartQuiz(name, num_questions, 0, {})
            /\ Len(session_info') <= 1
    \/ \E form \in SomeForms : Submit(form, 0, {})
    \/ \E activity_type \in {"copy_paste", "tab_switch"} :
            /\ activity_type = "copy_paste" => Get(session, "tab_switches", 0) = 0
            /\ LogActivity(activity_type, 0, {})
            /\ Get(session', "copy_paste_attempts", 0) <= MaxCopyPaste
            /\ Get(session', "tab_switches", 0) <= MaxTabSwitches

SpecActivity == Init /\ [][NextActivity]_vars

\* Order: one attempt with up to MaxCopyPaste copy-paste pings, submitted at
\* any point; storage calls of start_quiz and submit may fail
NextOrder ==
    \/ \E name \in NameInputs, num_questions \in NumQuestionsChoices,
          failing \in FaultSets(StartSites, MaxFaults) :
            /\ StartQuiz(name, num_questions, 0, failing)
            /\ Len(session_info') <= 1
    \/ \E form \in SomeForms, failing \in FaultSets(SubmitSites, MaxFaults) :
            Submit(form, 0, failing)
    \/ /\ LogActivity("copy_paste", 0, {})
       /\ Get(session', "copy_paste_attempts", 0) <= MaxCopyPaste

SpecOrder == Init /\ [][NextOrder]_vars

\* Timing: one attempt started at time 0 and submitted at once, at the
\* minimum time of a full quiz or at LateTime; no storage call fails
SubmitTimes == Times \cup {Len(Bank) * MIN_TIME_PER_QUESTION}

NextTiming ==
    \/ \E name \in NameInputs, num_questions \in NumQuestionsChoices :
            /\ StartQuiz(name, num_questions, 0, {})
            /\ Len(session_info') <= 1
    \/ \E form \in SomeForms, now \in SubmitTimes : Submit(form, now, {})
    \/ \E activity_type \in {"copy_paste", "tab_switch"} :
            /\ LogActivity(activity_type, 0, {})
            /\ pings' <= MaxPings

SpecTiming == Init /\ [][NextTiming]_vars

\* Names: validate_student_name applied once to a name of up to MaxNameLen
\* characters: letters, a space, a tab, a hyphen, an apostrophe and a digit
NameAlphabet == Letters \cup Whitespace \cup {"-", "'", "3"}

ValidateName(name) ==
    /\ last.response.route = "index"
    /\ last' = [response |-> [route |-> "validate_student_name",
                              status |-> "validated",
                              name |-> name,
                              valid |-> validate_student_name(name)],
                failed |-> {}]
    /\ UNCHANGED <<session, tables, faults, pings, reqs>>

NextNames == \E name \in SeqsUpTo(NameAlphabet, MaxNameLen) : ValidateName(name)

SpecNames == Init /\ [][NextNames]_vars

\* Selection: select_random_questions applied once to a bank of up to MaxBank
\* questions with 'num_questions' up to MaxRequested
QuestionBank(b) ==
    [i \in 1..b |-> [question_id |-> i, question |-> i, correct_answers |-> <<"A">>]]

SelectQuestions(questions_list, num_questions) ==
    /\ last.response.route = "index"
    /\ \E selected \in select_random_questions(questions_list, num_questions) :
          last' = [response |-> [route |-> "select_random_questions",
                                 status |-> "selected",
                                 questions_list |-> questions_list,
                                 num_questions |-> num_questions,
                                 selected |-> selected],
                   failed |-> {}]
    /\ UNCHANGED <<session, tables, faults, pings, reqs>>

NextSelect ==
    \E b \in 0..MaxBank, num_questions \in 0..MaxRequested :
        SelectQuestions(QuestionBank(b), num_questions)

SpecSelect == Init /\ [][NextSelect]_vars

----------------------------------------------------------------------------
(* Concurrent submit requests.  The session lives in a cookie the client   *)
(* holds: a request works on the copy it arrived with, and the client      *)
(* takes the session the response carries.  Requests sent before a         *)
(* response has arrived carry the same session.  No storage call fails     *)
(* here.                                                                   *)

\* the client sends a submit request
ReceiveSubmit ==
    /\ Len(reqs) < MaxInFlight
    /\ reqs' = Append(reqs, [state |-> "received", session |-> session])
    /\ UNCHANGED <<session, tables, faults, pings, last>>

\* the handler runs on the request's own copy of the session
HandleSubmit(i, form, now, failing) ==
    /\ reqs[i].state = "received"
    /\ LET outcome == submit(reqs[i].session, Current, form, now, failing) IN
        /\ failing \subseteq outcome.executed
        /\ session_info' = outcome.tables.session_info
        /\ quiz_log' = outcome.tables.quiz_log
        /\ security_events' = outcome.tables.security_events
        /\ updates' = outcome.tables.updates
        /\ faults' = faults + Cardinality(failing)
        /\ reqs' = [reqs EXCEPT ![i] =
                       [state |-> "handled", session |-> reqs[i].session,
                        saved |-> outcome.session, response |-> outcome.response,
                        failed |-> failing]]
    /\ UNCHANGED <<session, pings, last>>

\* the response reaches the client: it carries the session when the handler
\* has modified it
DeliverSubmit(i) ==
    /\ reqs[i].state = "handled"
    /\ session' = IF reqs[i].saved # reqs[i].session THEN reqs[i].saved ELSE session
    /\ last' = [response |-> reqs[i].response, failed |-> reqs[i].failed]
    /\ reqs' = SubSeq(reqs, 1, i - 1) \o SubSeq(reqs, i + 1, Len(reqs))
    /\ UNCHANGED <<tables, faults, pings>>

NextConcurrent ==
    \/ Requests({0}, SomeForms, {"copy_paste", "tab_switch"}, MaxAttempts, 0)
    \/ ReceiveSubmit
    \/ \E i \in DOMAIN reqs, form \in SomeForms : HandleSubmit(i, form, 0, {})
    \/ \E i \in DOMAIN reqs : DeliverSubmit(i)

SpecConcurrent == Init /\ [][NextConcurrent]_vars

----------------------------------------------------------------------------
(* Properties *)

\* the rows of quiz_log that belong to an attempt
RowsOf(log, id) == SelectSeq(log, LAMBDA row : row.session_id = id)

\* the events of one type that belong to an attempt
EventsOf(events, id, type) ==
    SelectSeq(events, LAMBDA e : e.session_id = id /\ e.event_type = type)

\* the session admits no submit: it holds no attempt, or its attempt is marked
Closed(sess) ==
    \/ ~Has(sess, "session_id")
    \/ (Has(sess, "quiz_submitted") /\ sess["quiz_submitted"] = TRUE)

\* the call sites of log_security_event
EventSites ==
    {Site("QUIZ_STARTED"), Site("SUSPICIOUS_ACTIVITY"), Site("QUIZ_COMPLETED"),
     Site("ACTIVITY")}

\* C1: once a submit has passed the guard, the session admits no submit until
\* a start_quiz; a submit in a session that admits none (the attempt is marked
\* submitted, or there is no attempt) is answered with the invalid-submission
\* redirect and writes nothing: the tables and the session stay as they were.
C1_ResubmitRejected ==
    [][ /\ (last'.response.route = "submit"
              /\ last'.response.status # "invalid_submission") => Closed(session')
        /\ (Closed(session) /\ last'.response.route # "start_quiz") => Closed(session')
        /\ (Closed(session) /\ last'.response.route = "submit") =>
              /\ last'.response.status = "invalid_submission"
              /\ UNCHANGED <<session, tables>> ]_vars

\* a second submit is rejected after the first one failed while scoring
C1_Witness ==
    /\ last.response.route = "submit"
    /\ last.response.status = "invalid_submission"
    /\ Has(session, "session_id")
    /\ Get(session, "quiz_submitted", FALSE)
    /\ updates # <<>>

\* C2: with two submit requests of one attempt handled concurrently, no attempt
\* gets two updates of submission_time, two quiz_log rows for one question or
\* two QUIZ_COMPLETED events.
C2_SingleScoring ==
    \A i \in DOMAIN session_info :
        LET id == session_info[i].session_id IN
        /\ Count(updates, id) <= 1
        /\ Len(EventsOf(security_events, id, "QUIZ_COMPLETED")) <= 1
        /\ \A a, b \in DOMAIN quiz_log :
              (/\ quiz_log[a].session_id = id
               /\ quiz_log[b].session_id = id
               /\ quiz_log[a].question_number = quiz_log[b].question_number) => a = b

\* C3: a session_info row is created with its page_load_time set and a NULL
\* submission_time; submission_time stays NULL until an UPDATE of the row
\* commits, at most one UPDATE ever commits for a row, it happens in the submit
\* of the attempt the session holds, and on a row that exists already.
C3_SubmissionTimeOnce ==
    [][ /\ \A i \in DOMAIN session_info' :
              LET row == session_info'[i] IN
              /\ row.page_load_time # NULL
              /\ Count(updates', row.session_id) <= 1
              /\ (row.submission_time = NULL)
                    <=> (Count(updates', row.session_id) = 0)
        /\ \A i \in DOMAIN session_info' \ DOMAIN session_info :
              session_info'[i].submission_time = NULL
        /\ \A i \in DOMAIN session_info :
              session_info'[i].submission_time # session_info[i].submission_time =>
                  /\ last'.response.route = "submit"
                  /\ Has(session, "session_id")
                  /\ session["session_id"] = session_info[i].session_id
                  /\ session_info[i].submission_time = NULL
        /\ \A j \in DOMAIN updates' \ DOMAIN updates :
              \E i \in DOMAIN session_info :
                  /\ session_info[i].session_id = updates'[j]
                  /\ session_info[i].page_load_time # NULL ]_vars

\* a submit has written the submission_time of a row
C3_Witness ==
    /\ last.response.route = "submit"
    /\ \E i \in DOMAIN session_info :
          /\ session_info[i].submission_time # NULL
          /\ Count(updates, session_info[i].session_id) = 1

\* C4: a session that holds a session_id has a session_info row with that id,
\* and every QUIZ_STARTED event refers to a session_info row.
C4_RowBeforeSession ==
    /\ Has(session, "session_id") =>
          \E i \in DOMAIN session_info :
              session_info[i].session_id = session["session_id"]
    /\ \A k \in DOMAIN security_events :
          security_events[k].event_type = "QUIZ_STARTED" =>
              \E i \in DOMAIN session_info :
                  session_info[i].session_id = security_events[k].session_id

\* an attempt has been started: the row, the session and the event are there
C4_Witness ==
    /\ last.response.status = "quiz"
    /\ Has(session, "session_id")
    /\ session_info[session["session_id"]].submission_time = NULL
    /\ EventsOf(security_events, session["session_id"], "QUIZ_STARTED") # <<>>

\* C5: a start_quiz answered with the invalid-name redirect leaves the session
\* and the three tables as they were.
C5_InvalidNameNoChange ==
    [][ last'.response.status = "invalid_name" => UNCHANGED <<session, tables>> ]_vars

\* an invalid name was sent while an attempt with counted activity is in progress
C5_Witness ==
    /\ last.response.status = "invalid_name"
    /\ Has(session, "session_id")
    /\ Pings(session) > 0

\* C6: a start_quiz whose INSERT into session_info fails leaves a session
\* without session_id and writes no row and no event; the submit or
\* log_activity that follows it is rejected and writes nothing.
C6_InsertFailureAborts ==
    [][ /\ last'.response.status = "start_error" =>
              /\ ~Has(session', "session_id")
              /\ UNCHANGED tables
        /\ (last.response.status = "start_error" /\ last'.response.route = "submit") =>
              /\ last'.response.status = "invalid_submission"
              /\ UNCHANGED <<session, tables>>
        /\ (last.response.status = "start_error"
              /\ last'.response.route = "log_activity") =>
              /\ last'.response.status = "error"
              /\ last'.response.message = "No active session"
              /\ UNCHANGED <<session, tables>> ]_vars

\* the INSERT of a start_quiz has failed
C6_Witness ==
    /\ last.response.status = "start_error"
    /\ Site("create_initial_session_info") \in last.failed
    /\ ~Has(session, "session_id")

\* C7: a request in which a write of a security event fails ends as it does
\* when the write succeeds: start_quiz inserts the row, populates the session
\* and renders the quiz; submit writes a quiz_log row for every selected
\* question, renders the result and clears the session; log_activity counts
\* the activity and answers 'logged'.
C7_EventFailureSwallowed ==
    [][ (faults' > faults /\ last'.failed \cap EventSites # {}) =>
          CASE last'.response.route = "start_quiz" ->
                  /\ last'.response.status = "quiz"
                  /\ Len(session_info') = Len(session_info) + 1
                  /\ Has(session', "session_id")
                  /\ session'["current_questions"] = last'.response.questions
                  /\ Pings(session') = 0
            [] last'.response.route = "submit" ->
                  /\ last'.response.status = "result"
                  /\ session' = EmptyDict
                  /\ Len(RowsOf(quiz_log', session["session_id"]))
                        = Len(session["current_questions"])
            [] last'.response.route = "log_activity" ->
                  /\ last'.response.status = "logged"
                  /\ Pings(session') = Pings(session) + 1
            [] OTHER -> FALSE ]_vars

\* the QUIZ_COMPLETED event of a submit was not written, the result was rendered
C7_Witness ==
    /\ Site("QUIZ_COMPLETED") \in last.failed
    /\ last.response.status = "result"
    /\ quiz_log # <<>>

\* C8 as stated: a question is marked correct if and only if the submitted
\* answers, taken as a set, equal the set of its correct answers.
C8_SetEquality ==
    last.response.status = "result" =>
        \A n \in DOMAIN last.response.results :
            LET result == last.response.results[n] IN
            result.is_correct
                <=> (ToSet(result.user_answers) = ToSet(result.correct_answers))

\* C8, amended: a question is marked correct if and only if the submitted
\* answers, taken as a set, equal the set of its correct answers and the
\* submitted list is as long as the list of correct answers; the quiz_log row
\* of the question carries the same mark.
C8_SetAndLengthEquality ==
    [][ last'.response.status = "result" =>
          \A n \in DOMAIN last'.response.results :
              LET result == last'.response.results[n]
                  row == RowsOf(quiz_log', session["session_id"])[n]
              IN /\ result.is_correct
                      <=> (/\ ToSet(result.user_answers) = ToSet(result.correct_answers)
                           /\ Len(result.user_answers) = Len(result.correct_answers))
                 /\ row.is_correct = result.is_correct
                 /\ row.user_answers = PipeJoin(result.user_answers) ]_vars

\* one question answered in another order and marked correct, one answered
\* with its correct answer twice and marked incorrect
C8_Witness ==
    /\ last.response.status = "result"
    /\ \E n, m \in DOMAIN last.response.results :
          /\ last.response.results[n].user_answers = <<"B", "A">>
          /\ last.response.results[n].correct_answers = <<"A", "B">>
          /\ last.response.results[n].is_correct
          /\ last.response.results[m].user_answers = <<"A", "A">>
          /\ last.response.results[m].correct_answers = <<"A">>
          /\ ~last.response.results[m].is_correct

\* C9: a submit that renders the result leaves exactly one quiz_log row for
\* every selected question of the attempt, numbered 1..n in the order of the
\* selection; the rows an attempt has are never changed, removed or added to
\* by a later request.
C9_OneRowPerQuestion ==
    [][ /\ last'.response.status = "result" =>
              LET selected_questions == session["current_questions"]
                  rows == RowsOf(quiz_log', session["session_id"])
              IN /\ Len(rows) = Len(selected_questions)
                 /\ \A n \in DOMAIN rows :
                       /\ rows[n].question_number = n
                       /\ rows[n].question = selected_questions[n].question
                       /\ rows[n].correct_answers
                             = PipeJoin(selected_questions[n].correct_answers)
        /\ \A i \in DOMAIN session_info :
              LET id == session_info[i].session_id IN
              RowsOf(quiz_log, id) # <<>> => RowsOf(quiz_log', id) = RowsOf(quiz_log, id)
        /\ SubSeq(quiz_log', 1, Len(quiz_log)) = quiz_log ]_vars

\* requests were made after a successful submit of two questions
C9_Witness ==
    /\ last.response.route # "submit"
    /\ \E i \in DOMAIN session_info :
          /\ Len(RowsOf(quiz_log, session_info[i].session_id)) = 2
          /\ EventsOf(security_events, session_info[i].session_id, "QUIZ_COMPLETED") # <<>>

\* C10: the score of a rendered result is the number of its questions marked
\* correct, the number of the attempt's quiz_log rows with is_correct set and
\* the score of the attempt's QUIZ_COMPLETED event; it lies between 0 and the
\* number of selected questions; when every question is answered with exactly
\* its correct answers the score is the total and every question is marked
\* correct.
C10_ScoreCountsCorrect ==
    [][ last'.response.status = "result" =>
          LET page == last'.response
              id == session["session_id"]
              rows == RowsOf(quiz_log', id)
              completed == EventsOf(security_events', id, "QUIZ_COMPLETED")
          IN /\ page.score
                   = Cardinality({n \in DOMAIN page.results : page.results[n].is_correct})
             /\ page.score = Len(SelectSeq(rows, LAMBDA row : row.is_correct))
             /\ last'.failed = {} => Len(completed) = 1
             /\ \A k \in DOMAIN completed :
                   /\ completed[k].event_details.score = page.score
                   /\ completed[k].event_details.total_questions = page.total
             /\ page.total = Len(session["current_questions"])
             /\ 0 <= page.score /\ page.score <= page.total
             /\ (\A n \in DOMAIN page.results :
                    page.results[n].user_answers = page.results[n].correct_answers)
                  => /\ page.score = page.total
                     /\ \A n \in DOMAIN page.results : page.results[n].is_correct ]_vars

\* two questions answered with exactly their correct answers: 2 out of 2
C10_Witness ==
    /\ last.response.status = "result"
    /\ last.response.total = 2
    /\ last.response.score = 2
    /\ \A n \in DOMAIN last.response.results :
          last.response.results[n].user_answers = last.response.results[n].correct_answers

\* the session ids the tables and a session hold
IdsInUse(sess) ==
    {session_info[i].session_id : i \in DOMAIN session_info}
        \cup {quiz_log[i].session_id : i \in DOMAIN quiz_log}
        \cup {security_events[i].session_id : i \in DOMAIN security_events}
        \cup (IF Has(sess, "session_id") THEN {sess["session_id"]} ELSE {})

\* C11: a start_quiz that renders the quiz in a session that holds an attempt
\* leaves a session with a session_id no table and no session held before, the
\* questions it selected, both counters at 0, no submitted flag and no other
\* field of the old session; the session_info rows that existed are unchanged.
C11_RestartSupersedes ==
    [][ (last'.response.status = "quiz" /\ Has(session, "session_id")) =>
          /\ session'["session_id"] \notin IdsInUse(session)
          /\ session'["current_questions"] = last'.response.questions
          /\ session'["copy_paste_attempts"] = 0
          /\ session'["tab_switches"] = 0
          /\ ~Has(session', "quiz_submitted")
          /\ DOMAIN session' = {"current_questions", "session_id", "student_name",
                                "page_load_time", "copy_paste_attempts", "tab_switches"}
          /\ SubSeq(session_info', 1, Len(session_info)) = session_info
          /\ Len(session_info') = Len(session_info) + 1
          /\ session_info'[Len(session_info')].session_id = session'["session_id"] ]_vars

\* a second attempt was started after the first one, with a counted tab
\* switch, was marked submitted by a submit that failed while saving its rows
C11_Witness ==
    /\ last.response.status = "quiz"
    /\ Len(session_info) = 2
    /\ session["session_id"] = session_info[2].session_id
    /\ session["session_id"] # session_info[1].session_id
    /\ session["tab_switches"] = 0
    /\ EventsOf(security_events, session_info[1].session_id, "TAB_SWITCH") # <<>>
    /\ Count(updates, session_info[1].session_id) = 1
    /\ Len(RowsOf(quiz_log, session_info[1].session_id)) < 2
    /\ session_info[1].submission_time # NULL
    /\ session_info[2].submission_time = NULL

\* the effect of a counted ping: the counter is one higher, every other field
\* of the session is as it was, and the event, when its write does not fail,
\* is appended with the new value of the counter as its total
PingEffect(counter, event_type, total, failing) ==
    /\ last'.response.status = "logged"
    /\ DOMAIN session' = DOMAIN session
    /\ session'[counter] = session[counter] + 1
    /\ \A key \in DOMAIN session \ {counter} : session'[key] = session[key]
    /\ IF failing = {}
       THEN /\ Len(security_events') = Len(security_events) + 1
            /\ SubSeq(security_events', 1, Len(security_events)) = security_events
            /\ LET event == security_events'[Len(security_events')] IN
                  /\ event.session_id = session["session_id"]
                  /\ event.event_type = event_type
                  /\ event.event_details[total] = session'[counter]
       ELSE security_events' = security_events
    /\ UNCHANGED <<session_info, quiz_log, updates>>

\* C12: a log_activity of type copy_paste in a session with an attempt adds 1
\* to copy_paste_attempts, changes no other session field and appends one
\* COPY_PASTE_ATTEMPT event whose total is the new counter value; the same for
\* tab_switch, tab_switches and TAB_SWITCH; in a session without an attempt it
\* answers with an error and changes neither the session nor a table.
C12_ActivityFrame ==
    [][ \A failing \in SUBSET ActivitySites :
          /\ LogActivity("copy_paste", 0, failing) =>
                IF Has(session, "session_id")
                THEN PingEffect("copy_paste_attempts", "COPY_PASTE_ATTEMPT",
                                "total_attempts", failing)
                ELSE /\ last'.response.status = "error"
                     /\ UNCHANGED <<session, tables>>
          /\ LogActivity("tab_switch", 0, failing) =>
                IF Has(session, "session_id")
                THEN PingEffect("tab_switches", "TAB_SWITCH", "total_switches", failing)
                ELSE /\ last'.response.status = "error"
                     /\ UNCHANGED <<session, tables>> ]_vars

\* the counters after three copy-paste pings and two tab-switch pings, the last ping logged
C12_Witness ==
    /\ last.response.route = "log_activity"
    /\ last.response.status = "logged"
    /\ session["copy_paste_attempts"] = 3
    /\ session["tab_switches"] = 2
    /\ security_events[Len(security_events)].event_type = "TAB_SWITCH"
    /\ security_events[Len(security_events)].event_details.total_switches = 2

\* C13: a submit that renders the result classifies the attempt as suspicious
\* exactly when copy_paste_attempts > 5 or tab_switches > 10 at that time, and
\* appends one SUSPICIOUS_ACTIVITY event for the attempt exactly when it does;
\* no other request appends a SUSPICIOUS_ACTIVITY event.
C13_SuspiciousThresholds ==
    [][ /\ last'.response.status = "result" =>
              LET id == session["session_id"]
                  exceeded == \/ session["copy_paste_attempts"] > 5
                              \/ session["tab_switches"] > 10
                  before == EventsOf(security_events, id, "SUSPICIOUS_ACTIVITY")
                  after == EventsOf(security_events', id, "SUSPICIOUS_ACTIVITY")
              IN /\ last'.response.suspicious_activity <=> exceeded
                 /\ before = <<>>
                 /\ Len(after) = IF exceeded THEN 1 ELSE 0
                 /\ \A k \in DOMAIN after :
                       /\ after[k].event_details.copy_paste_attempts
                             = session["copy_paste_attempts"]
                       /\ after[k].event_details.tab_switches = session["tab_switches"]
        /\ last'.response.status # "result" =>
              SelectSeq(security_events', LAMBDA e : e.event_type = "SUSPICIOUS_ACTIVITY")
                = SelectSeq(security_events, LAMBDA e : e.event_type = "SUSPICIOUS_ACTIVITY")
      ]_vars

\* an attempt with 6 copy-paste pings and no tab switch was submitted and
\* flagged
C13_Witness ==
    /\ last.response.status = "result"
    /\ last.response.suspicious_activity
    /\ \E k \in DOMAIN security_events :
          /\ security_events[k].event_type = "SUSPICIOUS_ACTIVITY"
          /\ security_events[k].event_details.copy_paste_attempts = 6
          /\ security_events[k].event_details.tab_switches = 0

\* the activity events of an attempt
ActivityEventsOf(events, id) ==
    SelectSeq(events, LAMBDA e : /\ e.session_id = id
                                 /\ e.event_type \in {"COPY_PASTE_ATTEMPT", "TAB_SWITCH"})

\* C14: a submit that renders the result leaves an empty session; a
\* log_activity in a session without session_id, as the one sent after the
\* result, gets the 'No active session' error and changes nothing; and no
\* request appends a COPY_PASTE_ATTEMPT or TAB_SWITCH event for an attempt that
\* has a QUIZ_COMPLETED event.
C14_SessionDestroyed ==
    [][ /\ last'.response.status = "result" => session' = EmptyDict
        /\ ((last.response.status = "result" \/ ~Has(session, "session_id"))
              /\ last'.response.route = "log_activity") =>
              /\ last'.response.status = "error"
              /\ last'.response.message = "No active session"
              /\ UNCHANGED <<session, tables>>
        /\ \A k \in DOMAIN security_events :
              security_events[k].event_type = "QUIZ_COMPLETED" =>
                  ActivityEventsOf(security_events', security_events[k].session_id)
                    = ActivityEventsOf(security_events, security_events[k].session_id)
      ]_vars

\* a ping sent after the result of an attempt that had a tab switch counted
C14_Witness ==
    /\ last.response.route = "log_activity"
    /\ last.response.status = "error"
    /\ session = EmptyDict
    /\ \E k \in DOMAIN security_events :
          /\ security_events[k].event_type = "QUIZ_COMPLETED"
          /\ ActivityEventsOf(security_events, security_events[k].session_id) # <<>>

\* del d[key]
Drop(d, key) == [k \in DOMAIN d \ {key} |-> d[k]]

\* the session fields submit requires besides session_id
RequiredFields == {"current_questions", "student_name", "page_load_time"}

\* C15: a submit in a session that holds an unmarked attempt with an empty
\* question list is answered with a redirect (the session-expired one when no
\* storage call fails) and writes nothing: no UPDATE of submission_time, no
\* quiz_log row, no security event.  The same is true of the handler applied to
\* the session of an attempt with one required field removed.
C15_MissingFieldNoScoring ==
    [][ /\ (/\ Has(session, "session_id")
            /\ ~Get(session, "quiz_submitted", FALSE)
            /\ session["current_questions"] = <<>>
            /\ last'.response.route = "submit") =>
              /\ last'.response.status \in {"session_expired", "error"}
              /\ last'.failed = {} => last'.response.status = "session_expired"
              /\ UNCHANGED tables
        /\ (Has(session, "session_id") /\ ~Get(session, "quiz_submitted", FALSE)) =>
              \A field \in RequiredFields, form \in SomeForms :
                  LET outcome == submit(Drop(session, field), Current, form, 0, {})
                  IN /\ outcome.response.status = "session_expired"
                     /\ outcome.tables = Current ]_vars

\* the submit of an attempt that was started with no question selected
C15_Witness ==
    /\ last.response.status = "session_expired"
    /\ Has(session, "session_id")
    /\ session["current_questions"] = <<>>
    /\ session_info[session["session_id"]].submission_time = NULL
    /\ updates = <<>>
    /\ quiz_log = <<>>

\* the storage calls of submit that are not writes of security events
ScoringSites == SubmitSites \ EventSites

\* C16: a submit renders the result only when none of its parameter load, its
\* UPDATE of submission_time and its quiz_log INSERTs has failed, the UPDATE
\* having committed and a row having been inserted for every selected question;
\* a submit in which one of these calls fails ends in the error redirect, which
\* carries no results.
C16_ResultOnlyOnSuccess ==
    [][ /\ last'.response.status = "result" =>
              LET id == session["session_id"] IN
              /\ last'.failed \cap ScoringSites = {}
              /\ Count(updates', id) = Count(updates, id) + 1
              /\ \A i \in DOMAIN session_info' :
                    session_info'[i].session_id = id =>
                        session_info'[i].submission_time # NULL
              /\ Len(RowsOf(quiz_log', id))
                    = Len(RowsOf(quiz_log, id)) + Len(session["current_questions"])
        /\ (last'.response.route = "submit" /\ faults' > faults
              /\ last'.failed \cap ScoringSites # {}) =>
              /\ last'.response.status = "error"
              /\ DOMAIN last'.response = {"route", "status"} ]_vars

\* the INSERT of the second quiz_log row failed: one row is written, the
\* submit ended in the error redirect
C16_Witness ==
    /\ last.response.route = "submit"
    /\ last.response.status = "error"
    /\ <<"save_quiz_log", 2>> \in last.failed
    /\ Len(quiz_log) = 1
    /\ updates # <<>>

\* C17: for a bank of b questions and 'num_questions' = k,
\* select_random_questions returns, when b >= k, k questions of the bank that
\* are pairwise different, and when b < k the bank itself.
C17_SelectionSize ==
    last.response.route = "select_random_questions" =>
        LET questions_list == last.response.questions_list
            num_questions == last.response.num_questions
            selected == last.response.selected
        IN IF Len(questions_list) >= num_questions
           THEN /\ Len(selected) = num_questions
                /\ \A i \in DOMAIN selected : selected[i] \in ToSet(questions_list)
                /\ \A i, j \in DOMAIN selected : i # j => selected[i] # selected[j]
           ELSE selected = questions_list

\* two questions drawn from a bank of five: the fourth, then the second
C17_Witness ==
    /\ last.response.route = "select_random_questions"
    /\ Len(last.response.questions_list) = 5
    /\ last.response.num_questions = 2
    /\ last.response.selected
          = <<last.response.questions_list[4], last.response.questions_list[2]>>

\* C18: validate_student_name returns true exactly for the names that, after
\* trimming, have at least 2 characters and consist only of letters, spaces,
\* hyphens and apostrophes.
C18_ValidExactly ==
    last.response.route = "validate_student_name" =>
        LET trimmed == Strip(last.response.name) IN
        last.response.valid
            <=> /\ Len(trimmed) >= 2
                /\ \A i \in DOMAIN trimmed : trimmed[i] \in Letters \cup {" ", "-", "'"}

\* the types of the events a step appends
AppendedTypes ==
    [k \in 1..(Len(security_events') - Len(security_events)) |->
        security_events'[Len(security_events) + k].event_type]

\* the question numbers of the quiz_log rows a step appends
AppendedNumbers ==
    [k \in 1..(Len(quiz_log') - Len(quiz_log)) |->
        quiz_log'[Len(quiz_log) + k].question_number]

\* C19: a submit that renders the result has updated submission_time, appended
\* the quiz_log rows 1..n in question order, then the SUSPICIOUS_ACTIVITY event
\* (if any), then the QUIZ_COMPLETED event, and cleared the session.  A submit
\* that fails has made a beginning of these writes: rows only after the update,
\* rows 1..m in order, no event, and the session not cleared.  Hence every
\* attempt with a quiz_log row has a submission_time, and every attempt with a
\* QUIZ_COMPLETED event has all the rows the event counts.
C19_WriteOrder ==
    [][ /\ last'.response.status = "result" =>
              LET id == session["session_id"]
                  n == Len(session["current_questions"])
              IN /\ session_info'[id].submission_time # NULL
                 /\ SubSeq(quiz_log', 1, Len(quiz_log)) = quiz_log
                 /\ AppendedNumbers = [k \in 1..n |-> k]
                 /\ SubSeq(security_events', 1, Len(security_events)) = security_events
                 /\ AppendedTypes \in { <<"QUIZ_COMPLETED">>, <<>>, <<"SUSPICIOUS_ACTIVITY">>,
                                        <<"SUSPICIOUS_ACTIVITY", "QUIZ_COMPLETED">> }
                 /\ last'.failed = {} => AppendedTypes # <<>>
                 /\ last'.failed = {} => AppendedTypes[Len(AppendedTypes)] = "QUIZ_COMPLETED"
                 /\ session' = EmptyDict
        /\ (last'.response.route = "submit" /\ last'.response.status = "error") =>
              LET id == session["session_id"] IN
              /\ quiz_log' # quiz_log => session_info'[id].submission_time # NULL
              /\ SubSeq(quiz_log', 1, Len(quiz_log)) = quiz_log
              /\ AppendedNumbers = [k \in 1..Len(AppendedNumbers) |-> k]
              /\ Len(AppendedNumbers) <= Len(session["current_questions"])
              /\ session["current_questions"] # <<>> =>
                    Len(AppendedNumbers) < Len(session["current_questions"])
              /\ security_events' = security_events
              /\ session' = MarkSubmitted(session)
        /\ \A i \in DOMAIN quiz_log' :
              session_info'[quiz_log'[i].session_id].submission_time # NULL
        /\ \A k \in DOMAIN security_events' :
              LET event == security_events'[k] IN
              /\ event.event_type = "QUIZ_COMPLETED" =>
                    Len(RowsOf(quiz_log', event.session_id))
                        = event.event_details.total_questions
              /\ event.event_type = "SUSPICIOUS_ACTIVITY" =>
                    \A j \in 1..k :
                        ~(/\ security_events'[j].event_type = "QUIZ_COMPLETED"
                          /\ security_events'[j].session_id = event.session_id) ]_vars

\* a flagged attempt was submitted: two rows, then the SUSPICIOUS_ACTIVITY
\* event, then the QUIZ_COMPLETED event, and the session is empty
C19_Witness ==
    /\ last.response.status = "result"
    /\ session = EmptyDict
    /\ Len(quiz_log) = 2
    /\ Len(security_events) >= 2
    /\ security_events[Len(security_events) - 1].event_type = "SUSPICIOUS_ACTIVITY"
    /\ security_events[Len(security_events)].event_type = "QUIZ_COMPLETED"
    /\ session_info[1].submission_time # NULL

Marked(sess) == Has(sess, "session_id") /\ Get(sess, "quiz_submitted", FALSE)

\* what the tables hold of an attempt: its session_info rows, its quiz_log
\* rows and its QUIZ_COMPLETED events
RecordOf(info, qlog, events, id) ==
    [session_info |-> SelectSeq(info, LAMBDA row : row.session_id = id),
     quiz_log |-> RowsOf(qlog, id),
     completed |-> EventsOf(events, id, "QUIZ_COMPLETED")]

\* C21: a submit that passes the guard and ends in a redirect leaves the
\* session with its session_id and the submitted flag, and appends no event; a
\* marked session stays marked, with the same id, until a start_quiz, and the
\* id of a session is never one used before; every submit in a marked session
\* is rejected and writes nothing; and a request changes the session_info row,
\* the quiz_log rows and the QUIZ_COMPLETED events of no attempt other than the
\* unmarked one its session holds.  So an attempt marked by a failed submit
\* keeps what was written and never gets a QUIZ_COMPLETED event.
C21_FailedSubmitStaysMarked ==
    [][ /\ (/\ last'.response.route = "submit"
            /\ last'.response.status \in {"error", "session_expired"}) =>
              /\ Has(session, "session_id") /\ ~Get(session, "quiz_submitted", FALSE)
              /\ session' = Put(session, "quiz_submitted", TRUE)
              /\ security_events' = security_events
        /\ (Marked(session) /\ last'.response.route # "start_quiz") =>
              /\ Marked(session')
              /\ session'["session_id"] = session["session_id"]
        /\ (Marked(session) /\ last'.response.route = "submit") =>
              /\ last'.response.status = "invalid_submission"
              /\ UNCHANGED <<session, tables>>
        /\ (Has(session', "session_id") /\ last'.response.route = "start_quiz"
              /\ last'.response.status # "invalid_name") =>
              session'["session_id"] \notin IdsInUse(session)
        /\ \A i \in DOMAIN session_info :
              LET id == session_info[i].session_id IN
              (Marked(session) \/ ~Has(session, "session_id")
                 \/ session["session_id"] # id) =>
                  RecordOf(session_info', quiz_log', security_events', id)
                    = RecordOf(session_info, quiz_log, security_events, id) ]_vars

\* the first attempt was marked by a submit that failed after one of its two
\* rows was written; a second attempt was started and completed
C21_Witness ==
    /\ Len(session_info) = 2
    /\ Len(RowsOf(quiz_log, session_info[1].session_id)) = 1
    /\ session_info[1].submission_time # NULL
    /\ EventsOf(security_events, session_info[1].session_id, "QUIZ_COMPLETED") = <<>>
    /\ EventsOf(security_events, session_info[2].session_id, "QUIZ_COMPLETED") # <<>>
    /\ Len(RowsOf(quiz_log, session_info[2].session_id)) = 2

\* the session holds no attempt state at all
NoAttempt(sess) ==
    \A key \in {"session_id", "current_questions", "student_name", "start_time",
                "copy_paste_attempts", "tab_switches", "quiz_submitted"} :
        ~Has(sess, key)

====
